---- MODULE Spec2Model ----
(***************************************************************************)
(* Model of ourJoin.c: a four-file sort-merge join pipeline.               *)
(*                                                                         *)
(* Strings are sequences of byte values, so that strcmp, the comma split   *)
(* of strtok_r and the line reconstruction of join_on_columns are computed *)
(* the way the C code computes them.  Array cursors (i, j, li, rj) are     *)
(* 0-based as in the source; TLA+ sequences are 1-based, hence arr[k + 1]. *)
(***************************************************************************)
EXTENDS Integers, Sequences, FiniteSets, TLC

\* ------------------------------------------------------------------------
\* Program constants
\* ------------------------------------------------------------------------

\* MAX_CAPACITY (#define MAX_CAPACITY 16000000) is the capacity of every
\* record array.  The model runs with a small capacity, so that a full
\* array and a write past it are within reach; nothing else depends on its
\* value.
MAX_CAPACITY == 4

\* #define MAX_FIELDS 8
MAX_FIELDS == 8

\* #define DELIM ','
DELIM == 44

\* '\n'
NL == 10

\* ------------------------------------------------------------------------
\* Bounds of the explored input space
\* ------------------------------------------------------------------------

\* longest input file (in lines) fed to main
MaxFileLen == 2

\* longest record array handed to join_on_columns when it is run on its own
MaxJoinLen == 2

\* largest join column used when join_on_columns is run on its own
MaxCol == 2

\* Lines an input file may contain (bytes: 'a' = 97, 'b' = 98, ',' = 44).
\*   ""   "a"   "a,b"   "b,a"   "a,,b"
Lines ==
  { <<>>, <<97>>, <<97, 44, 98>>, <<98, 44, 97>>, <<97, 44, 44, 98>> }

\* Lines whose parse gives the records join_on_columns is run on.
\*   ""   "a"   "a,b"   "b,a"   "a,a,a,a,a,a,a,a"
JoinLines ==
  { <<>>, <<97>>, <<97, 44, 98>>, <<98, 44, 97>>,
    <<97, 44, 97, 44, 97, 44, 97, 44, 97, 44, 97, 44, 97, 44, 97>> }

\* ------------------------------------------------------------------------
\* C library functions
\* ------------------------------------------------------------------------

Sign(n) == IF n < 0 THEN -1 ELSE IF n > 0 THEN 1 ELSE 0

Min(S) == CHOOSE x \in S : \A y \in S : x <= y

\* strcmp: byte-lexicographic comparison, reduced to its sign; the first
\* differing byte decides, and a proper prefix is the smaller string
strcmp(s, t) ==
  LET n == IF Len(s) < Len(t) THEN Len(s) ELSE Len(t)
      D == { k \in 1..n : s[k] # t[k] }
  IN  IF D = {} THEN Sign(Len(s) - Len(t))
      ELSE Sign(s[Min(D)] - t[Min(D)])

\* index of the first occurrence of byte c in s, 0 when absent (strchr)
strchr(s, c) ==
  LET P == { k \in 1..Len(s) : s[k] = c } IN
  IF P = {} THEN 0 ELSE Min(P)

\* strtok_r(.., ",", &save) called until it returns NULL: leading delimiters
\* are skipped, a token ends at the next delimiter, and the scan resumes
\* after it.  So the tokens are the maximal runs of non-delimiter bytes, in
\* order, and runs of delimiters never yield an empty token.
TokenStarts(s) ==
  { k \in 1..Len(s) : s[k] # DELIM /\ (k = 1 \/ s[k - 1] = DELIM) }

TokenEnd(s, k) ==
  Min({ e \in k..Len(s) : e = Len(s) \/ s[e + 1] = DELIM })

strtok_r(s) ==
  LET S == TokenStarts(s) IN
  [n \in 1..Cardinality(S) |->
     LET k == CHOOSE x \in S : Cardinality({ m \in S : m < x }) = n - 1
     IN  SubSeq(s, k, TokenEnd(s, k))]

\* the first n elements of s, all of s when it is shorter
Take(s, n) == SubSeq(s, 1, IF Len(s) <= n THEN Len(s) ELSE n)

\* the field loop: while (token && nfields < MAX_FIELDS) fields[nfields++] = token
SplitFields(buf) == Take(strtok_r(buf), MAX_FIELDS)

\* if (nl) *nl = '\0'
StripNewline(buffer) ==
  LET nl == strchr(buffer, NL) IN
  IF nl = 0 THEN buffer ELSE SubSeq(buffer, 1, nl - 1)

\* record_t: the raw line and its fields; nfields is Len(fields)
ParseRecord(buffer) ==
  LET ln == StripNewline(buffer) IN [line |-> ln, fields |-> SplitFields(ln)]

nfields(r) == Len(r.fields)

\* ------------------------------------------------------------------------
\* Column comparator and sorter
\* ------------------------------------------------------------------------

\* compare_by_column / local_compare: a missing column compares as ""
compare_by_column(ra, rb, col) ==
  LET fa == IF col <= nfields(ra) THEN ra.fields[col] ELSE <<>>
      fb == IF col <= nfields(rb) THEN rb.fields[col] ELSE <<>>
  IN  strcmp(fa, fb)

\* adjacent pairs are in comparator order
IsSortedOn(recs, col) ==
  \A k \in 1..(Len(recs) - 1) : compare_by_column(recs[k], recs[k + 1], col) <= 0

\* sort_by_column with the comparison left out: any rearrangement
sort_by_column_unordered(recs, col) ==
  { [k \in 1..Len(recs) |-> recs[p[k]]] : p \in Permutations(1..Len(recs)) }

\* sort_by_column as built without _GNU_SOURCE (qsort with local_compare):
\* qsort is not stable, so every comparator-ordered rearrangement of the
\* array is a possible outcome
sort_by_column(recs, col) ==
  { s \in { [k \in 1..Len(recs) |-> recs[p[k]]] : p \in Permutations(1..Len(recs)) } :
      IsSortedOn(s, col) }

\* ------------------------------------------------------------------------
\* join_on_columns
\* ------------------------------------------------------------------------

\* #define MAX_LINE_LEN 128
MAX_LINE_LEN == 128

\* the key expression of the merge loop:
\*   col <= rec.nfields ? rec.fields[col - 1] : ""
JoinKey(rec, col) == IF col <= nfields(rec) THEN rec.fields[col] ELSE <<>>

\* the run scan with "if" in place of "while": at most one record is passed
RunEndOnce(arr, col, key, k) ==
  IF k < Len(arr) /\ strcmp(key, JoinKey(arr[k + 1], col)) = 0 THEN k + 1 ELSE k

\* while (k < count && strcmp(key, <key of arr[k]>) == 0) k++;   (k is 0-based)
RECURSIVE RunEnd(_, _, _, _)
RunEnd(arr, col, key, k) ==
  IF k < Len(arr) /\ strcmp(key, JoinKey(arr[k + 1], col)) = 0
  THEN RunEnd(arr, col, key, k + 1)
  ELSE k

\* the left cursor loop replaced by a single i++
NextIOnce(L, lcol, key, i0) == i0 + 1

\* "Move i and j past this key": the two cursor loops after the nested loops
NextI(L, lcol, key, i0) == RunEnd(L, lcol, key, i0)
NextJ(R, rcol, key, j0) == RunEnd(R, rcol, key, j0)

\* the two loops that append the fields of one side, skipping the join column
RECURSIVE AppendFields(_, _, _)
AppendFields(rec, col, f) ==
  IF f >= nfields(rec) THEN <<>>
  ELSE IF f + 1 = col THEN AppendFields(rec, col, f + 1)
  ELSE <<DELIM>> \o rec.fields[f + 1] \o AppendFields(rec, col, f + 1)

\* buf after snprintf and the strncat loops; every call is limited to the
\* room left in buf, so buf is the untruncated text cut at sizeof(buf) - 1
JoinBuf(key, l, lcol, r, rcol) ==
  Take(key \o AppendFields(l, lcol, 0) \o AppendFields(r, rcol, 0),
       4 * MAX_LINE_LEN - 1)

\* result[cnt]: the line is buf, the fields are buf split again on commas
JoinRecord(key, l, lcol, r, rcol) ==
  LET buf == JoinBuf(key, l, lcol, r, rcol) IN
  [line |-> buf, fields |-> SplitFields(buf)]

\* the (li, rj) pairs visited by the nested loops over the two runs
\* [i0, li) x [j0, rj), in visiting order
RunPairs(i0, li, j0, rj) ==
  LET w == rj - j0 IN
  [k \in 1..((li - i0) * w) |-> <<i0 + ((k - 1) \div w), j0 + ((k - 1) % w)>>]

\* One pass through the body of the outer while loop, on the locals
\* f = (i, j, result, pairs).
\*   cmp == 0: one record per (li, rj) of the two runs, in loop order; after
\*             each record cnt++ and, if cnt >= MAX_CAPACITY, exit(EXIT_FAILURE);
\*             when the nested loops complete, both cursors move past their run
\*   cmp < 0:  i++
\*   cmp > 0:  j++
JoinStep(L, lcol, R, rcol, f) ==
  LET lk  == JoinKey(L[f.i + 1], lcol)
      rk  == JoinKey(R[f.j + 1], rcol)
      cmp == strcmp(lk, rk)
  IN
  IF cmp = 0 THEN
    LET li   == RunEnd(L, lcol, lk, f.i)
        rj   == RunEnd(R, rcol, rk, f.j)
        all  == RunPairs(f.i, li, f.j, rj)
        room == MAX_CAPACITY - Len(f.result)
        full == Len(all) >= room
        done == Take(all, room)
        recs == [k \in 1..Len(done) |->
                   JoinRecord(lk, L[done[k][1] + 1], lcol,
                              R[done[k][2] + 1], rcol)]
    IN  [i      |-> IF full THEN f.i ELSE NextI(L, lcol, lk, f.i),
         j      |-> IF full THEN f.j ELSE NextJ(R, rcol, rk, f.j),
         result |-> f.result \o Take(recs, Len(recs)),
         pairs  |-> f.pairs \o done,
         exited |-> full]
  ELSE IF cmp < 0 THEN [f EXCEPT !.i = f.i + 1]
  ELSE [f EXCEPT !.j = f.j + 1]

\* while (i < left_count && j < right_count) { ... }
RECURSIVE JoinLoop(_, _, _, _, _)
JoinLoop(L, lcol, R, rcol, f) ==
  IF f.exited \/ ~(f.i < Len(L) /\ f.j < Len(R)) THEN f
  ELSE JoinLoop(L, lcol, R, rcol, JoinStep(L, lcol, R, rcol, f))

\* the whole call: the locals when the function returns or exits
join_on_columns(L, lcol, R, rcol) ==
  JoinLoop(L, lcol, R, rcol,
           [i |-> 0, j |-> 0, result |-> <<>>, pairs |-> <<>>, exited |-> FALSE])

\* ------------------------------------------------------------------------
\* State
\* ------------------------------------------------------------------------

VARIABLES
  pc,         \* position of main (or of the function run on its own)
  jpc,        \* position inside join_on_columns: "idle", "loop", "return"
  input,      \* lines fgets has delivered from the file being read
  records,    \* read_csv_file: the array being filled; count is its length
  widx,       \* index of the latest write into a record array, -1 if none
  store,      \* main's record arrays, by variable name
  left, left_col, right, right_col,   \* join_on_columns: arguments
  i, j,       \* join_on_columns: the two cursors
  result,     \* join_on_columns: the output array; cnt is its length
  pairs,      \* the (li, rj) index pair each element of result was built from
  trace,      \* the sort and join calls main has made, in order
  out         \* lines written to stdout

vars == <<pc, jpc, input, records, widx, store, left, left_col, right,
          right_col, i, j, result, pairs, trace, out>>

count == Len(records)
cnt == Len(result)

StoreNames ==
  {"f1_records", "f2_records", "joined12", "f3_records", "joined123",
   "f4_records", "final_join"}

readVars == <<input, records>>
joinVars == <<jpc, left, left_col, right, right_col, i, j, result, pairs>>

\* ------------------------------------------------------------------------
\* read_csv_file
\* ------------------------------------------------------------------------

\* One iteration of while (fgets(...)): the record is written to
\* records[count].  The lines of Lines are shorter than MAX_LINE_LEN, so
\* fgets delivers each of them whole, with its newline.  There is no check of count against the capacity: a write
\* at count >= MAX_CAPACITY lands outside the allocation, after which the
\* process may fault or carry on.
ReadLine(site, limit) ==
  /\ pc = site
  /\ Len(input) < limit
  /\ \E ln \in Lines :
       /\ input' = Append(input, ln)
       /\ records' = Append(records, ParseRecord(ln \o <<NL>>))
  /\ widx' = count
  /\ IF count >= MAX_CAPACITY
       THEN pc' \in {pc, "crashed"}
       ELSE pc' = pc
  /\ UNCHANGED <<store, joinVars, trace, out>>

\* fgets returns NULL: *records_out = records, back in main
ReadEOF(site, dst, next) ==
  /\ pc = site
  /\ store' = [store EXCEPT ![dst] = records]
  /\ records' = <<>>
  /\ input' = <<>>
  /\ pc' = next
  /\ UNCHANGED <<widx, joinVars, trace, out>>

\* ------------------------------------------------------------------------
\* sort_by_column, called from main
\* ------------------------------------------------------------------------

Sort(site, name, col, next) ==
  /\ pc = site
  /\ \E s \in sort_by_column(store[name], col) :
       store' = [store EXCEPT ![name] = s]
  /\ trace' = Append(trace, <<"sort", name, col>>)
  /\ pc' = next
  /\ UNCHANGED <<readVars, widx, joinVars, out>>

\* ------------------------------------------------------------------------
\* join_on_columns, one action per pass through the outer while loop
\* ------------------------------------------------------------------------

\* exit() ends the process
Running == pc \notin {"exit_failure", "crashed"}

InLoop == Running /\ jpc = "loop" /\ i < Len(left) /\ j < Len(right)

lkey == JoinKey(left[i + 1], left_col)
rkey == JoinKey(right[j + 1], right_col)

\* entry: cnt = 0, result allocated, i = j = 0
CallJoin(site, lname, lcol, rname, rcol) ==
  /\ pc = site
  /\ jpc = "idle"
  /\ left' = store[lname]
  /\ left_col' = lcol
  /\ right' = store[rname]
  /\ right_col' = rcol
  /\ i' = 0
  /\ j' = 0
  /\ result' = <<>>
  /\ pairs' = <<>>
  /\ jpc' = "loop"
  /\ trace' = Append(trace, <<"join", lname, lcol, rname, rcol>>)
  /\ UNCHANGED <<pc, readVars, widx, store, out>>

\* the body of the outer loop has run: the locals take the values of f
ApplyStep(f) ==
  /\ i' = f.i
  /\ j' = f.j
  /\ result' = f.result
  /\ pairs' = f.pairs
  /\ widx' = IF f.result # result THEN Len(f.result) - 1 ELSE widx
  /\ pc' = IF f.exited THEN "exit_failure" ELSE pc
  /\ UNCHANGED <<jpc, left, left_col, right, right_col, readVars, store,
                 trace, out>>

Frame == [i |-> i, j |-> j, result |-> result, pairs |-> pairs, exited |-> FALSE]

\* cmp == 0
JoinEqual ==
  /\ InLoop
  /\ strcmp(lkey, rkey) = 0
  /\ ApplyStep(JoinStep(left, left_col, right, right_col, Frame))

\* cmp < 0
JoinLess ==
  /\ InLoop
  /\ strcmp(lkey, rkey) < 0
  /\ ApplyStep(JoinStep(left, left_col, right, right_col, Frame))

\* cmp > 0
JoinGreater ==
  /\ InLoop
  /\ strcmp(lkey, rkey) > 0
  /\ ApplyStep(JoinStep(left, left_col, right, right_col, Frame))

\* the loop condition fails: *out_count = cnt; return result
JoinLoopExit ==
  /\ Running
  /\ jpc = "loop"
  /\ ~(i < Len(left) /\ j < Len(right))
  /\ jpc' = "return"
  /\ UNCHANGED <<pc, left, left_col, right, right_col, i, j, result, pairs,
                 readVars, widx, store, trace, out>>

\* back in main: the returned array is assigned, the callee's frame is gone
JoinReturn(site, dst, next) ==
  /\ pc = site
  /\ jpc = "return"
  /\ store' = [store EXCEPT ![dst] = result]
  /\ jpc' = "idle"
  /\ left' = <<>>
  /\ left_col' = 0
  /\ right' = <<>>
  /\ right_col' = 0
  /\ i' = 0
  /\ j' = 0
  /\ result' = <<>>
  /\ pairs' = <<>>
  /\ pc' = next
  /\ UNCHANGED <<readVars, widx, trace, out>>

\* free_records on two arrays that are no longer needed
Free(site, a, b, next) ==
  /\ pc = site
  /\ store' = [store EXCEPT ![a] = <<>>, ![b] = <<>>]
  /\ pc' = next
  /\ UNCHANGED <<readVars, widx, joinVars, trace, out>>

\* ------------------------------------------------------------------------
\* print_records
\* ------------------------------------------------------------------------

RECURSIVE JoinWithCommas(_)
JoinWithCommas(fs) ==
  IF fs = <<>> THEN <<>>
  ELSE IF Len(fs) = 1 THEN fs[1]
  ELSE fs[1] \o <<DELIM>> \o JoinWithCommas(Tail(fs))

\* each record is rebuilt from its fields, not from its line
print_records(recs) == [k \in 1..Len(recs) |-> JoinWithCommas(recs[k].fields)]

PrintRecords ==
  /\ pc = "print"
  /\ out' = print_records(store["final_join"])
  /\ pc' = "cleanup"
  /\ UNCHANGED <<readVars, widx, store, joinVars, trace>>

Cleanup ==
  /\ pc = "cleanup"
  /\ store' = [store EXCEPT !["final_join"] = <<>>]
  /\ pc' = "done"
  /\ UNCHANGED <<readVars, widx, joinVars, trace, out>>

\* ------------------------------------------------------------------------
\* main
\* ------------------------------------------------------------------------

Read1 == ReadLine("read1", MaxFileLen)
Eof1 == ReadEOF("read1", "f1_records", "sort1")
Sort1 == Sort("sort1", "f1_records", 1, "read2")
Read2 == ReadLine("read2", MaxFileLen)
Eof2 == ReadEOF("read2", "f2_records", "sort2")
Sort2 == Sort("sort2", "f2_records", 1, "join12")
Call12 == CallJoin("join12", "f1_records", 1, "f2_records", 1)
Return12 == JoinReturn("join12", "joined12", "free12")
Free12 == Free("free12", "f1_records", "f2_records", "read3")
Read3 == ReadLine("read3", MaxFileLen)
Eof3 == ReadEOF("read3", "f3_records", "sort3")
Sort3 == Sort("sort3", "f3_records", 1, "join123")
Call123 == CallJoin("join123", "joined12", 1, "f3_records", 1)
Return123 == JoinReturn("join123", "joined123", "free123")
Free123 == Free("free123", "joined12", "f3_records", "sort123")
\* the sort before the last join done on column 1 instead of column 4
Sort123OnCol1 == Sort("sort123", "joined123", 1, "read4")
Sort123 == Sort("sort123", "joined123", 4, "read4")
Read4 == ReadLine("read4", MaxFileLen)
Eof4 == ReadEOF("read4", "f4_records", "sort4")
Sort4 == Sort("sort4", "f4_records", 1, "joinfinal")
CallFinal == CallJoin("joinfinal", "joined123", 4, "f4_records", 1)
ReturnFinal == JoinReturn("joinfinal", "final_join", "freefinal")
FreeFinal == Free("freefinal", "joined123", "f4_records", "print")

Init ==
  /\ pc = "read1"
  /\ jpc = "idle"
  /\ input = <<>>
  /\ records = <<>>
  /\ widx = -1
  /\ store = [n \in StoreNames |-> <<>>]
  /\ left = <<>>
  /\ left_col = 0
  /\ right = <<>>
  /\ right_col = 0
  /\ i = 0
  /\ j = 0
  /\ result = <<>>
  /\ pairs = <<>>
  /\ trace = <<>>
  /\ out = <<>>

Next ==
  \/ Read1 \/ Eof1 \/ Sort1
  \/ Read2 \/ Eof2 \/ Sort2
  \/ Call12 \/ JoinEqual \/ JoinLess \/ JoinGreater \/ JoinLoopExit
  \/ Return12 \/ Free12
  \/ Read3 \/ Eof3 \/ Sort3
  \/ Call123 \/ Return123 \/ Free123
  \/ Sort123
  \/ Read4 \/ Eof4 \/ Sort4
  \/ CallFinal \/ ReturnFinal \/ FreeFinal
  \/ PrintRecords \/ Cleanup

Spec == Init /\ [][Next]_vars

\* ------------------------------------------------------------------------
\* read_csv_file run on its own, on files of up to MAX_CAPACITY + 1 lines
\* ------------------------------------------------------------------------

ReadInit ==
  /\ pc = "read_csv_file"
  /\ jpc = "idle"
  /\ input = <<>>
  /\ records = <<>>
  /\ widx = -1
  /\ store = [n \in StoreNames |-> <<>>]
  /\ left = <<>>
  /\ left_col = 0
  /\ right = <<>>
  /\ right_col = 0
  /\ i = 0
  /\ j = 0
  /\ result = <<>>
  /\ pairs = <<>>
  /\ trace = <<>>
  /\ out = <<>>

ReadFile == ReadLine("read_csv_file", MAX_CAPACITY + 1)

\* fgets returns NULL: *records_out = records; *count_out = count
ReadReturn ==
  /\ pc = "read_csv_file"
  /\ pc' = "read_done"
  /\ UNCHANGED <<readVars, widx, store, joinVars, trace, out>>

ReadNext == ReadFile \/ ReadReturn

ReadSpec == ReadInit /\ [][ReadNext]_vars

\* ------------------------------------------------------------------------
\* join_on_columns run on its own, on arrays of parsed records in any order
\* ------------------------------------------------------------------------

JoinRecords == { ParseRecord(ln) : ln \in JoinLines }

JoinArrays ==
  UNION { [1..n -> JoinRecords] : n \in 0..MaxJoinLen }

JoinInit ==
  /\ pc = "join_on_columns"
  /\ jpc = "idle"
  /\ input = <<>>
  /\ records = <<>>
  /\ widx = -1
  /\ store = [n \in StoreNames |-> <<>>]
  /\ left = <<>>
  /\ left_col = 0
  /\ right = <<>>
  /\ right_col = 0
  /\ i = 0
  /\ j = 0
  /\ result = <<>>
  /\ pairs = <<>>
  /\ trace = <<>>
  /\ out = <<>>

\* the call, with any arguments: cnt = 0, result allocated, i = j = 0
JoinCall ==
  /\ pc = "join_on_columns"
  /\ jpc = "idle"
  /\ left' \in JoinArrays
  /\ left_col' \in 1..MaxCol
  /\ right' \in JoinArrays
  /\ right_col' \in 1..MaxCol
  /\ jpc' = "loop"
  /\ UNCHANGED <<pc, i, j, result, pairs, readVars, widx, store, trace, out>>

JoinNext == JoinCall \/ JoinEqual \/ JoinLess \/ JoinGreater \/ JoinLoopExit

JoinSpec == JoinInit /\ [][JoinNext]_vars

\* ========================================================================
\* Properties
\* ========================================================================

Range(s) == { s[k] : k \in 1..Len(s) }

BothSorted == IsSortedOn(left, left_col) /\ IsSortedOn(right, right_col)

\* the (left index, right index) pairs whose join keys are equal
MatchPairs ==
  { p \in (0..(Len(left) - 1)) \X (0..(Len(right) - 1)) :
      JoinKey(left[p[1] + 1], left_col) = JoinKey(right[p[2] + 1], right_col) }

LeftKeys == { JoinKey(left[k], left_col) : k \in 1..Len(left) }
RightKeys == { JoinKey(right[k], right_col) : k \in 1..Len(right) }

KeyCount(arr, col, v) == Cardinality({ k \in 1..Len(arr) : JoinKey(arr[k], col) = v })

RECURSIVE SumOfProducts(_)
SumOfProducts(K) ==
  IF K = {} THEN 0
  ELSE LET v == CHOOSE x \in K : TRUE IN
       KeyCount(left, left_col, v) * KeyCount(right, right_col, v)
         + SumOfProducts(K \ {v})

\* C1: when join_on_columns returns on two arrays sorted on their join
\* columns, it has emitted exactly one record for every pair of a left and a
\* right record with equal keys and none for any other pair; the output count
\* is the sum over the shared keys of (left count) x (right count), and is
\* zero when no key is shared.
MergeJoinEmitsMatchingPairs ==
  (jpc = "return" /\ BothSorted) =>
     /\ Len(pairs) = cnt
     /\ \A a, b \in 1..Len(pairs) : a # b => pairs[a] # pairs[b]
     /\ Range(pairs) = MatchPairs
     /\ cnt = SumOfProducts(LeftKeys \cap RightKeys)
     /\ (LeftKeys \cap RightKeys = {} => cnt = 0)

\* a sorted join returned two records for a key that is twice on the left,
\* with another key on the right only
MergeJoinWitness ==
  /\ jpc = "return"
  /\ BothSorted
  /\ cnt = 2
  /\ LeftKeys = {<<97>>}
  /\ RightKeys = {<<97>>, <<98>>}
  /\ Range(pairs) = {<<0, 0>>, <<1, 0>>}

\* fs without the field at 1-based position col (unchanged when col is absent)
RemoveAt(fs, col) ==
  IF col > Len(fs) THEN fs
  ELSE [k \in 1..(Len(fs) - 1) |-> IF k < col THEN fs[k] ELSE fs[k + 1]]

ExpectedFields(k) ==
  LET l == left[pairs[k][1] + 1]
      r == right[pairs[k][2] + 1]
  IN  <<JoinKey(l, left_col)>> \o RemoveAt(l.fields, left_col)
                               \o RemoveAt(r.fields, right_col)

\* C2: the fields of every emitted record are the join key, then the left
\* record's fields without the one at left_col, then the right record's
\* fields without the one at right_col.
OutputFieldLayout ==
  jpc \in {"loop", "return"} =>
    \A k \in 1..cnt : result[k].fields = ExpectedFields(k)

\* a row as the multiset of its fields, an array as the multiset of its rows
RowBag(fs) == [v \in Range(fs) |-> Cardinality({ k \in 1..Len(fs) : fs[k] = v })]
RowsOf(recs) ==
  [b \in { RowBag(recs[k].fields) : k \in 1..Len(recs) } |->
     Cardinality({ k \in 1..Len(recs) : RowBag(recs[k].fields) = b })]

\* C3: joining sorted A with sorted B gives the same multiset of rows, each
\* row taken as the multiset of its fields, as joining B with A.
JoinCommutes ==
  (jpc = "return" /\ BothSorted) =>
    RowsOf(result) = RowsOf(join_on_columns(right, right_col, left, left_col).result)

\* C5: a join of sorted arrays exits with a failure exactly when the number
\* of matching pairs exceeds MAX_CAPACITY, and otherwise returns all of them.
CeilingExact ==
  BothSorted =>
    /\ (pc = "exit_failure" => Cardinality(MatchPairs) > MAX_CAPACITY)
    /\ (jpc = "return" => Cardinality(MatchPairs) <= MAX_CAPACITY)
    /\ (jpc = "return" => cnt = Cardinality(MatchPairs))

NonEmptyCount(lines) == Cardinality({ k \in 1..Len(lines) : lines[k] # <<>> })

\* C6: the parsed array holds one record per non-empty line read, and every
\* record has at least one field.
NoEmptyRecords ==
  /\ count = NonEmptyCount(input)
  /\ \A k \in 1..count : nfields(records[k]) >= 1

\* the text between consecutive commas, empty pieces included
RECURSIVE SplitAll(_)
SplitAll(s) ==
  LET d == strchr(s, DELIM) IN
  IF d = 0 THEN <<s>>
  ELSE <<SubSeq(s, 1, d - 1)>> \o SplitAll(SubSeq(s, d + 1, Len(s)))

\* split with limit n: the n-th piece is the unsplit remainder
PositionalSplit(s, n) ==
  LET ps == SplitAll(s) IN
  IF Len(ps) <= n THEN ps
  ELSE SubSeq(ps, 1, n - 1) \o <<JoinWithCommas(SubSeq(ps, n, Len(ps)))>>

\* C8: the fields of a parsed record are the positional comma split of its
\* line with limit MAX_FIELDS.
PositionalParse ==
  \A k \in 1..count :
    k <= Len(input) => records[k].fields = PositionalSplit(input[k], MAX_FIELDS)

\* C10: every write into a record array is at an index below MAX_CAPACITY.
WritesInBounds == widx < MAX_CAPACITY

PastRun(arr, col, key, from, to) ==
  /\ from < to
  /\ to <= Len(arr)
  /\ \A k \in from..(to - 1) : JoinKey(arr[k + 1], col) = key
  /\ (to = Len(arr) \/ JoinKey(arr[to + 1], col) # key)

\* C9: in join_on_columns on arrays in any order, the cursors never decrease,
\* every pass through the outer loop that does not exit raises i + j, which
\* never exceeds left_count + right_count (so the loop makes at most that
\* many passes and ends), a pass with equal keys leaves each cursor at the
\* first record after the run of that key, and the loop is left with
\* i = left_count or j = right_count.
MergeLoopTerminates ==
  /\ [][i' >= i /\ j' >= j]_vars
  /\ [][(InLoop /\ pc' # "exit_failure") => i' + j' > i + j]_vars
  /\ [][(InLoop /\ pc' # "exit_failure" /\ strcmp(lkey, rkey) = 0) =>
          /\ PastRun(left, left_col, lkey, i, i')
          /\ PastRun(right, right_col, rkey, j, j')]_vars
  /\ [](i <= Len(left) /\ j <= Len(right))
  /\ []((Running /\ jpc = "loop" /\ ~InLoop) => (i = Len(left) \/ j = Len(right)))
  /\ [](jpc = "return" => (i = Len(left) \/ j = Len(right)))

\* a join of an unsorted left array returned after an equal-key pass over a
\* run of two on the right, with the left cursor short of the end
MergeLoopWitness ==
  /\ jpc = "return"
  /\ ~IsSortedOn(left, left_col)
  /\ cnt = 2
  /\ i = 1
  /\ j = 2
  /\ Len(left) = 2

\* the calls main makes, in order
MainCalls ==
  << <<"sort", "f1_records", 1>>,
     <<"sort", "f2_records", 1>>,
     <<"join", "f1_records", 1, "f2_records", 1>>,
     <<"sort", "f3_records", 1>>,
     <<"join", "joined12", 1, "f3_records", 1>>,
     <<"sort", "joined123", 4>>,
     <<"sort", "f4_records", 1>>,
     <<"join", "joined123", 4, "f4_records", 1>> >>

SortedBefore(p, name, col) == \E q \in 1..(p - 1) : trace[q] = <<"sort", name, col>>

\* C4 as stated: every array passed to a join, intermediate A = joined12
\* included, went through sort_by_column on its join column before that join.
EveryJoinInputWasSorted ==
  \A p \in 1..Len(trace) :
    trace[p][1] = "join" =>
      /\ SortedBefore(p, trace[p][2], trace[p][3])
      /\ SortedBefore(p, trace[p][4], trace[p][5])

\* C4 amended: main sorts file1 and file2 on column 1 and joins them into
\* joined12; sorts file3 on column 1 (joined12 is not sorted again) and joins
\* joined12 with it into joined123; sorts joined123 on column 4 and file4 on
\* column 1 and joins them.  Every join input other than joined12 went
\* through sort_by_column on its join column before its join.
PipelineOrder ==
  /\ Len(trace) <= Len(MainCalls)
  /\ trace = SubSeq(MainCalls, 1, Len(trace))
  /\ (pc = "done" => trace = MainCalls)
  /\ \A p \in 1..Len(trace) :
       trace[p][1] = "join" =>
         /\ (trace[p][2] # "joined12" => SortedBefore(p, trace[p][2], trace[p][3]))
         /\ SortedBefore(p, trace[p][4], trace[p][5])

\* main ran to the end and printed a joined row
PipelineWitness ==
  /\ pc = "done"
  /\ Len(trace) = 8
  /\ out # <<>>

\* C7: whenever join_on_columns runs in main, both of its arrays are in
\* comparator order on their join columns, and the key the join reads from a
\* record is the value the comparator orders it by.
JoinInputsSorted ==
  jpc \in {"loop", "return"} =>
    /\ BothSorted
    /\ \A a, b \in Range(left) :
         compare_by_column(a, b, left_col)
           = strcmp(JoinKey(a, left_col), JoinKey(b, left_col))
    /\ \A a, b \in Range(right) :
         compare_by_column(a, b, right_col)
           = strcmp(JoinKey(a, right_col), JoinKey(b, right_col))

\* the second join runs on an unsorted-by-the-Sorter joined12 with two keys
JoinInputsSortedWitness ==
  /\ pc = "join123"
  /\ jpc = "loop"
  /\ Len(left) = 2
  /\ JoinKey(left[1], 1) # JoinKey(left[2], 1)
  /\ Len(right) = 2

====
